---- MODULE Spec2Model ----
(***************************************************************************)
(* Inquiry funnel and payment reconciliation of the architect-portfolio    *)
(* backend: the inquiries collection, the checkout sessions held by the    *)
(* payment provider, and one action per HTTP handler.  A handler is one    *)
(* atomic step: it reads the document, calls the provider and writes.      *)
(* Timestamps are readings of the clock now; an absent field is NoField    *)
(* and a field stored as null is NullValue.                                *)
(* Beside the funnel: the admin notes of an inquiry, the content           *)
(* collections (projects, blogs, news) with their slugs and remote media,  *)
(* the testimonials collection, and the shared document-store connection.  *)
(* Not modelled: createdAt/updatedAt, name/phone/context text fields.      *)
(***************************************************************************)
EXTENDS Integers, Sequences, FiniteSets, TLC

\* ---- bounds -------------------------------------------------------------
MaxInquiries == 1
MaxSessions == 1
MaxClock == 2
\* inquiries of the specifications that leave the payment side small or out
MaxIdentities == 2

\* ---- encodings of absent and null document fields --------------------------
NoField == 0
NullValue == 0 - 1

ClientTypes == {"private", "business"}
\* clientType of a request body: "" is an absent field, "agency" no client type
RequestClientTypes == ClientTypes \cup {"", "agency"}
\* A string is the sequence of its characters; <<>> is also an absent field.
Emails ==
  {<<>>,
   <<"a", "@", "a", ".", "a">>,
   <<"A", "@", "a", ".", "A">>,
   <<" ", "a", "@", "a", ".", "a">>,
   <<"a", ".", "a">>,
   <<" ">>}
Paths == {"general", "consult"}
EventTypes == {"checkout.session.completed",
               "checkout.session.async_payment_succeeded",
               "payment_intent.succeeded"}
\* status the error middleware answers for an error thrown by the provider's
\* client: the error's own statusCode, or 500 when it has none
UpstreamErrorCodes == {400, 404, 500}

VARIABLES inquiries, sessions, now, lastOp

\* adminNotes[i]: the adminNotes field of inquiry i; noteCalls: the admin
\* status updates in flight.  projects, blogs, news: the content collections;
\* slugCalls: the creates in flight; cloudinaryDeletes: the remote assets the
\* last project handler asked the media store to delete.  testimonials: the
\* testimonials collection.  dbHandle (db), isConnecting: the module variables of the
\* connection; callers: the connectToDatabase calls; serverUp: whether the
\* document store answers.
VARIABLES adminNotes, noteCalls, projects, blogs, news, slugCalls, cloudinaryDeletes, testimonials, dbHandle, isConnecting, callers, serverUp

funnelVars == <<inquiries, sessions, now, lastOp>>
notesVars == <<adminNotes, noteCalls>>
contentVars == <<projects, blogs, news, slugCalls, cloudinaryDeletes>>
connectionVars == <<dbHandle, isConnecting, callers, serverUp>>
siteVars == <<notesVars, contentVars, testimonials, connectionVars>>

vars == <<funnelVars, siteVars>>

InquiryIds == 1..Len(inquiries)
SessionIds == 1..Len(sessions)

\* The handler that answered last: the id it was called with, its HTTP status
\* (0: no HTTP response), the event type of a webhook delivery or the outcome
\* named in the response message, and whether it reached the document store.
\* line_items: the unit amounts of the checkout session the handler had the
\* provider create (<<>>: it created none).
Response(op, id, code, arg, db) ==
  [op |-> op, id |-> id, code |-> code, arg |-> arg, db |-> db, line_items |-> <<>>]

SetInquiry(i, rec) == [inquiries EXCEPT ![i] = rec]

\* ---- strings -------------------------------------------------------------
isSpace(ch) == ch = " "

RECURSIVE trimStart(_)
trimStart(str) ==
  IF str # <<>> /\ isSpace(Head(str)) THEN trimStart(Tail(str)) ELSE str

RECURSIVE trimEnd(_)
trimEnd(str) ==
  IF str # <<>> /\ isSpace(str[Len(str)])
    THEN trimEnd(SubSeq(str, 1, Len(str) - 1)) ELSE str

trim(str) == trimEnd(trimStart(str))

lowerChar(ch) == IF ch = "A" THEN "a" ELSE ch

toLowerCase(str) == [k \in 1..Len(str) |-> lowerChar(str[k])]

\* /^[^\s@]+@[^\s@]+\.[^\s@]+$/
emailRegexTest(str) ==
  \E at \in 2..Len(str), dot \in 1..(Len(str) - 1) :
    /\ str[at] = "@"
    /\ str[dot] = "."
    /\ dot >= at + 2
    /\ \A k \in 1..Len(str) : k # at => ~isSpace(str[k]) /\ str[k] # "@"

\* ---- step 1: create identity --------------------------------------------
validateInquiryIdentity(clientType, email) ==
  /\ clientType # "" => clientType \in ClientTypes
  /\ email # <<>> => emailRegexTest(email)

\* slip: the address is stored as typed
normalizeEmail_asTyped(email) == email

normalizeEmail(email) == toLowerCase(trim(email))

newInquiry(clientType, email) ==
  [clientType |-> IF clientType = "" THEN "private" ELSE clientType,
   email |-> normalizeEmail(email),
   documentUrls |-> <<>>,
   selectedPath |-> "undefined",
   step |-> 1,
   status |-> "draft",
   consultationDetails |-> FALSE,
   stripeSessionId |-> NoField,
   stripeCustomerId |-> NoField,
   stripeInvoiceId |-> NoField,
   paymentStatus |-> "undefined",
   invoiceStatus |-> "undefined",
   paidAt |-> NoField,
   billingCollectedAt |-> NoField,
   submittedAt |-> NoField,
   reviewedAt |-> NoField]

\* The id of the inserted document is the next one never issued before.
createInquiryIdentity(clientType, email) ==
  /\ IF ~validateInquiryIdentity(clientType, email)
       THEN /\ lastOp' = Response("createInquiryIdentity", 0, 400, "", FALSE)
            /\ UNCHANGED inquiries
       ELSE /\ inquiries' = Append(inquiries, newInquiry(clientType, email))
            /\ lastOp' = Response("createInquiryIdentity", Len(inquiries) + 1, 201, "", TRUE)
  /\ UNCHANGED <<sessions, now>>
  /\ UNCHANGED siteVars

\* ---- step 2: project context --------------------------------------------
\* the URLs of the documents uploaded with the request, in upload order
uploadedDocuments(n) == [k \in 1..n |-> k]

contextSet(inq, n) ==
  [inq EXCEPT !.documentUrls = uploadedDocuments(n), !.step = 2]

updateInquiryContext(i, n) ==
  /\ IF i \in InquiryIds
       THEN /\ inquiries' = SetInquiry(i, contextSet(inquiries[i], n))
            /\ lastOp' = Response("updateInquiryContext", i, 200, "", TRUE)
       ELSE /\ lastOp' = Response("updateInquiryContext", i, 404, "", TRUE)
            /\ UNCHANGED inquiries
  /\ UNCHANGED <<sessions, now>>
  /\ UNCHANGED siteVars

\* ---- step 3: choose path ------------------------------------------------
updateInquiryPath(i, selectedPath) ==
  /\ IF selectedPath \notin Paths
       THEN /\ lastOp' = Response("updateInquiryPath", i, 400, "", FALSE)
            /\ UNCHANGED inquiries
       ELSE IF i \in InquiryIds
         THEN /\ inquiries' = SetInquiry(i, [inquiries[i] EXCEPT
                                   !.selectedPath = selectedPath, !.step = 3])
              /\ lastOp' = Response("updateInquiryPath", i, 200, "", TRUE)
         ELSE /\ lastOp' = Response("updateInquiryPath", i, 404, "", TRUE)
              /\ UNCHANGED inquiries
  /\ UNCHANGED <<sessions, now>>
  /\ UNCHANGED siteVars

\* ---- step 4 (general): submit -------------------------------------------
\* slip: the chosen path is not looked at
submitAllowed_anyPath(selectedPath) == TRUE

submitAllowed(selectedPath) == selectedPath = "general"

submitSet(inq, t) ==
  [inq EXCEPT !.step = 4, !.status = "submitted", !.submittedAt = t]

submitGeneralInquiry(i) ==
  /\ IF i \notin InquiryIds
       THEN /\ lastOp' = Response("submitGeneralInquiry", i, 404, "", TRUE)
            /\ UNCHANGED inquiries
       ELSE IF ~submitAllowed(inquiries[i].selectedPath)
         THEN /\ lastOp' = Response("submitGeneralInquiry", i, 400, "", TRUE)
              /\ UNCHANGED inquiries
         ELSE /\ inquiries' = SetInquiry(i, submitSet(inquiries[i], now))
              /\ lastOp' = Response("submitGeneralInquiry", i, 200, "", TRUE)
  /\ UNCHANGED <<sessions, now>>
  /\ UNCHANGED siteVars

\* ---- step 4 (consult): consultation details -----------------------------
updateConsultationDetails(i) ==
  /\ IF i \in InquiryIds
       THEN /\ inquiries' = SetInquiry(i, [inquiries[i] EXCEPT
                                 !.consultationDetails = TRUE, !.step = 4])
            /\ lastOp' = Response("updateConsultationDetails", i, 200, "", TRUE)
       ELSE /\ lastOp' = Response("updateConsultationDetails", i, 404, "", TRUE)
            /\ UNCHANGED inquiries
  /\ UNCHANGED <<sessions, now>>
  /\ UNCHANGED siteVars

\* ---- payment provider: checkout sessions ------------------------------
\* A session as the provider holds it.  completedAs is the payment_status
\* carried by the session's checkout.session.completed event ("none" while
\* the session is still open); payment_status is the current one.
\* customerName: the session's customer record carries a company name and
\* billing address.
newSession(i, clientType) ==
  [inquiryId |-> i,
   clientType |-> clientType,
   payment_status |-> "unpaid",
   completedAs |-> "none",
   customer |-> NullValue,
   customerName |-> FALSE,
   invoice |-> NullValue]

\* The customer completes the hosted checkout page: the provider creates the
\* customer record (customer_creation: 'always') and possibly an invoice.
StripeCompleteSession(s, paymentStatus, withInvoice) ==
  /\ s \in SessionIds
  /\ sessions[s].completedAs = "none"
  /\ sessions' = [sessions EXCEPT ![s] = [@ EXCEPT
                     !.payment_status = paymentStatus,
                     !.completedAs = paymentStatus,
                     !.customer = s,
                     !.invoice = IF withInvoice THEN s ELSE NullValue]]
  /\ lastOp' = Response("stripe.complete", s, 0, "", FALSE)
  /\ UNCHANGED <<inquiries, now>>
  /\ UNCHANGED siteVars

\* A delayed payment method settles after the session completed unpaid.
StripeAsyncPaymentSucceeds(s) ==
  /\ s \in SessionIds
  /\ sessions[s].completedAs = "unpaid"
  /\ sessions[s].payment_status = "unpaid"
  /\ sessions' = [sessions EXCEPT ![s] = [@ EXCEPT !.payment_status = "paid"]]
  /\ lastOp' = Response("stripe.async_paid", s, 0, "", FALSE)
  /\ UNCHANGED <<inquiries, now>>
  /\ UNCHANGED siteVars

\* ---- create checkout ----------------------------------------------------
\* slip: the stored address is not looked at
checkoutEmailOk_any(email) == TRUE

\* the two email checks made before the price is computed
checkoutEmailOk(email) ==
  /\ trim(email) # <<>>
  /\ emailRegexTest(toLowerCase(trim(email)))

\* durations a request may name: the three of the table, one that is in no
\* table, and the name of a property every object literal inherits
Durations == {"30", "60", "90", "45", "constructor"}
ObjectPrototypeKeys == {"constructor"}
\* the value of an inherited property (a function): truthy, and no amount
InheritedProperty == 0 - 2

durationPrices == [d \in {"30", "60", "90"} |->
                     CASE d = "30" -> 6499 [] d = "60" -> 9999 [] d = "90" -> 15999]

\* durationPrices[duration]: 0 stands for undefined
durationLookup(duration) ==
  IF duration \in DOMAIN durationPrices THEN durationPrices[duration]
  ELSE IF duration \in ObjectPrototypeKeys THEN InheritedProperty
  ELSE 0

basePrice(duration) ==
  IF durationLookup(duration) # 0 THEN durationLookup(duration) ELSE durationPrices["60"]

roadmapPrice(roadmapReport) == IF roadmapReport THEN 5000 ELSE 0

\* unit amounts of the line items: the consultation, then the report if asked
lineItems(duration, roadmapReport) ==
  IF roadmapReport
    THEN <<basePrice(duration), roadmapPrice(roadmapReport)>>
    ELSE <<basePrice(duration)>>

\* the provider rejects a session whose unit amounts are not integers
ProviderAccepts(items) == \A k \in 1..Len(items) : items[k] \in Nat

\* the $set written once the provider has answered: the new session has no
\* customer and no invoice yet
checkoutStore(inq, sessionId) ==
  [inq EXCEPT !.stripeSessionId = sessionId,
              !.stripeCustomerId = NullValue,
              !.stripeInvoiceId = NullValue,
              !.paymentStatus = "pending"]

createCheckoutSession(i, duration, roadmapReport) ==
  /\ IF i \notin InquiryIds
       THEN /\ lastOp' = Response("createCheckoutSession", i, 404, "", TRUE)
            /\ UNCHANGED <<inquiries, sessions>>
       ELSE IF ~checkoutEmailOk(inquiries[i].email)
         THEN /\ lastOp' = Response("createCheckoutSession", i, 400, "", TRUE)
              /\ UNCHANGED <<inquiries, sessions>>
       ELSE IF ~ProviderAccepts(lineItems(duration, roadmapReport))
         THEN /\ \E errCode \in UpstreamErrorCodes :
                   lastOp' = Response("createCheckoutSession", i, errCode, "provider", TRUE)
              /\ UNCHANGED <<inquiries, sessions>>
         ELSE /\ Len(sessions) < MaxSessions
              /\ sessions' = Append(sessions, newSession(i, inquiries[i].clientType))
              /\ inquiries' = SetInquiry(i, checkoutStore(inquiries[i], Len(sessions) + 1))
              /\ lastOp' = [Response("createCheckoutSession", i, 200, "", TRUE)
                              EXCEPT !.line_items = lineItems(duration, roadmapReport)]
  /\ UNCHANGED now
  /\ UNCHANGED siteVars

\* ---- webhook ------------------------------------------------------------
\* slip: the signature check never rejects
constructEventThrows_never(sigOk) == FALSE

constructEventThrows(sigOk) == ~sigOk

OrNull(v) == IF v >= 1 THEN v ELSE NullValue

\* slip: the client type is not looked at
webhookInvoiceStatus_anyClient(paymentStatus, clientType) ==
  IF paymentStatus = "paid" THEN "finalized" ELSE "pending"

webhookInvoiceStatus(paymentStatus, clientType) ==
  IF paymentStatus = "paid" /\ clientType = "business" THEN "billing_pending"
  ELSE IF paymentStatus = "paid" THEN "finalized"
  ELSE "pending"

\* $set of the checkout.session.completed case
webhookCompletedSet(inq, session, paymentStatus, t) ==
  [inq EXCEPT !.paymentStatus = IF paymentStatus = "paid" THEN "paid" ELSE "pending",
              !.status = IF paymentStatus = "paid" THEN "paid" ELSE "pending",
              !.stripeCustomerId = OrNull(session.customer),
              !.stripeInvoiceId = OrNull(session.invoice),
              !.invoiceStatus = webhookInvoiceStatus(paymentStatus, session.clientType),
              !.paidAt = IF paymentStatus = "paid" THEN t ELSE NullValue]

\* $set of the checkout.session.async_payment_succeeded case
webhookAsyncSet(inq, session, t) ==
  [inq EXCEPT !.paymentStatus = "paid",
              !.status = "paid",
              !.stripeCustomerId = OrNull(session.customer),
              !.stripeInvoiceId = OrNull(session.invoice),
              !.invoiceStatus = IF session.clientType = "business"
                                  THEN "billing_pending" ELSE "finalized",
              !.paidAt = t]

\* Events the provider has actually emitted for session s.
Emitted(type, s) ==
  CASE type = "checkout.session.completed" -> sessions[s].completedAs # "none"
    [] type = "checkout.session.async_payment_succeeded" ->
         sessions[s].completedAs = "unpaid" /\ sessions[s].payment_status = "paid"
    [] OTHER -> sessions[s].payment_status = "paid"

\* One delivery.  A delivery whose signature verifies carries an event the
\* provider emitted; a delivery whose signature does not verify may carry
\* any payload about any session.
handleWebhook(type, s, sigOk) ==
  /\ s \in SessionIds
  /\ sigOk => Emitted(type, s)
  /\ IF constructEventThrows(sigOk)
       THEN /\ lastOp' = Response("handleWebhook", s, 400, type, FALSE)
            /\ UNCHANGED inquiries
       ELSE /\ lastOp' = Response("handleWebhook", s, 200, type, TRUE)
            /\ LET i == sessions[s].inquiryId IN
               CASE type = "checkout.session.completed" ->
                      inquiries' = SetInquiry(i, webhookCompletedSet(inquiries[i], sessions[s],
                                                    sessions[s].completedAs, now))
                 [] type = "checkout.session.async_payment_succeeded" ->
                      inquiries' = SetInquiry(i, webhookAsyncSet(inquiries[i], sessions[s], now))
                 [] OTHER -> UNCHANGED inquiries
  /\ UNCHANGED <<sessions, now>>
  /\ UNCHANGED siteVars

\* ---- session status lookup ----------------------------------------------
paidSet(inq, t) ==
  [inq EXCEPT !.paymentStatus = "paid", !.status = "paid", !.paidAt = t]

getCheckoutSession(s) ==
  /\ IF s \notin SessionIds
       THEN /\ \E errCode \in UpstreamErrorCodes :
                 lastOp' = Response("getCheckoutSession", s, errCode, "", FALSE)
            /\ UNCHANGED inquiries
       ELSE IF sessions[s].payment_status = "paid"
         THEN /\ inquiries' = SetInquiry(sessions[s].inquiryId,
                                 paidSet(inquiries[sessions[s].inquiryId], now))
              /\ lastOp' = Response("getCheckoutSession", s, 200, "paid", TRUE)
         ELSE /\ lastOp' = Response("getCheckoutSession", s, 200, "unpaid", FALSE)
              /\ UNCHANGED inquiries
  /\ UNCHANGED <<sessions, now>>
  /\ UNCHANGED siteVars

\* ---- fallback reconciler ------------------------------------------------
\* slip: the local record is not looked at
verifyNeedsUpdate_anyLocal(sessionPaymentStatus, inquiryPaymentStatus) ==
  sessionPaymentStatus = "paid"

verifyNeedsUpdate(sessionPaymentStatus, inquiryPaymentStatus) ==
  sessionPaymentStatus = "paid" /\ inquiryPaymentStatus # "paid"

\* what the handler leaves in the document, given the session it retrieved
verifyUpdate(inq, sessionPaymentStatus, t) ==
  IF verifyNeedsUpdate(sessionPaymentStatus, inq.paymentStatus)
    THEN paidSet(inq, t)
    ELSE inq

verifyPaymentStatus(i) ==
  /\ IF i \notin InquiryIds
       THEN /\ lastOp' = Response("verifyPaymentStatus", i, 404, "", TRUE)
            /\ UNCHANGED inquiries
       ELSE IF inquiries[i].stripeSessionId < 1
         THEN /\ lastOp' = Response("verifyPaymentStatus", i, 400, "", TRUE)
              /\ UNCHANGED inquiries
         ELSE LET session == sessions[inquiries[i].stripeSessionId] IN
              /\ inquiries' = SetInquiry(i, verifyUpdate(inquiries[i], session.payment_status, now))
              /\ lastOp' = Response("verifyPaymentStatus", i, 200,
                                    IF verifyNeedsUpdate(session.payment_status,
                                                         inquiries[i].paymentStatus)
                                      THEN "updated" ELSE "verified", TRUE)
  /\ UNCHANGED <<sessions, now>>
  /\ UNCHANGED siteVars

\* ---- billing finalization (business clients) ----------------------------
\* Customers and invoices the payment provider knows: calls that name any
\* other id throw.
CustomerExists(c) == \E s \in SessionIds : sessions[s].customer = c
InvoiceExists(v) == \E s \in SessionIds : sessions[s].invoice = v

\* slip: the invoice status is left as the webhook set it
billingSet_stampOnly(inq, t) == [inq EXCEPT !.billingCollectedAt = t]

billingSet(inq, t) ==
  [inq EXCEPT !.invoiceStatus = "finalized", !.billingCollectedAt = t]

RequiredBillingFields == {"companyName", "address", "customerId", "invoiceId"}

\* stripe.customers.update on the customer created by session c
customersUpdate(c) == [sessions EXCEPT ![c] = [@ EXCEPT !.customerName = TRUE]]

\* slip: a rejected tax ID aborts the request like a rejected invoice call
taxIdFatal_always(taxIdCallOk) == ~taxIdCallOk

\* the catch around customers.createTaxId swallows the error
taxIdFatal(taxIdCallOk) == FALSE

\* inquiryId 0: no (valid) inquiry id in the body; customerId, invoiceId 0:
\* missing from the body.  taxIdCallOk FALSE: a VAT number was sent and the
\* provider rejected it.  invoiceCallOk: the provider's invoice calls succeed.
\* An error thrown outside the handler's own catch blocks is answered by the
\* error middleware.
submitBusinessBilling(inquiryId, customerId, invoiceId, companyName, address, taxIdCallOk, invoiceCallOk) ==
  /\ IF ~companyName \/ ~address \/ customerId = 0 \/ invoiceId = 0
       THEN /\ lastOp' = Response("submitBusinessBilling", inquiryId, 400, "", FALSE)
            /\ UNCHANGED <<inquiries, sessions>>
       ELSE IF inquiryId # 0 /\ inquiryId \notin InquiryIds
         THEN /\ lastOp' = Response("submitBusinessBilling", inquiryId, 404, "", TRUE)
              /\ UNCHANGED <<inquiries, sessions>>
         ELSE IF /\ inquiryId # 0
                 /\ \/ /\ inquiries[inquiryId].stripeCustomerId >= 1
                       /\ inquiries[inquiryId].stripeCustomerId # customerId
                    \/ /\ inquiries[inquiryId].stripeInvoiceId >= 1
                       /\ inquiries[inquiryId].stripeInvoiceId # invoiceId
           THEN /\ lastOp' = Response("submitBusinessBilling", inquiryId, 400, "mismatch", TRUE)
                /\ UNCHANGED <<inquiries, sessions>>
           ELSE IF ~CustomerExists(customerId)
             THEN /\ \E errCode \in UpstreamErrorCodes :
                       lastOp' = Response("submitBusinessBilling", inquiryId, errCode, "", TRUE)
                  /\ UNCHANGED <<inquiries, sessions>>
           ELSE IF taxIdFatal(taxIdCallOk)
             THEN /\ \E errCode \in UpstreamErrorCodes :
                       lastOp' = Response("submitBusinessBilling", inquiryId, errCode, "", TRUE)
                  /\ sessions' = customersUpdate(customerId)
                  /\ UNCHANGED inquiries
           ELSE IF ~InvoiceExists(invoiceId) \/ ~invoiceCallOk
             THEN /\ lastOp' = Response("submitBusinessBilling", inquiryId, 500,
                                        "invoice finalization failed", TRUE)
                  /\ sessions' = customersUpdate(customerId)
                  /\ UNCHANGED inquiries
             ELSE /\ lastOp' = Response("submitBusinessBilling", inquiryId, 200, "", TRUE)
                  /\ sessions' = customersUpdate(customerId)
                  /\ IF inquiryId # 0
                       THEN inquiries' = SetInquiry(inquiryId, billingSet(inquiries[inquiryId], now))
                       ELSE UNCHANGED inquiries
  /\ UNCHANGED now
  /\ UNCHANGED siteVars

\* ---- admin: status update -------------------------------------------------
validStatuses ==
  {"draft", "submitted", "reviewed", "consultation_pending_payment",
   "payment_pending", "paid", "invoice_finalized", "completed", "cancelled"}

\* status "": no status in the body (only the note, if any, is written)
adminStatusSet(inq, status, t) ==
  IF status = "" THEN inq
  ELSE [inq EXCEPT !.status = status,
                   !.reviewedAt = IF status = "reviewed" /\ inq.status # "reviewed"
                                    THEN t ELSE @]

updateAdminInquiryStatus(i, status) ==
  /\ IF status # "" /\ status \notin validStatuses
       THEN /\ lastOp' = Response("updateAdminInquiryStatus", i, 400, "", FALSE)
            /\ UNCHANGED inquiries
       ELSE IF i \notin InquiryIds
         THEN /\ lastOp' = Response("updateAdminInquiryStatus", i, 404, "", TRUE)
              /\ UNCHANGED inquiries
         ELSE /\ inquiries' = SetInquiry(i, adminStatusSet(inquiries[i], status, now))
              /\ lastOp' = Response("updateAdminInquiryStatus", i, 200, "", TRUE)
  /\ UNCHANGED <<sessions, now>>
  /\ UNCHANGED siteVars

\* ---- admin: status update with a note, as its two document-store calls ----
MaxNoteCalls == 2
NoteCallIds == 1..MaxNoteCalls
\* adminNote of a request body; hasNote = FALSE is an absent field
NoteTexts == {<<>>, <<" ">>, <<"x">>, <<" ", "y">>}

noNoteCall ==
  [pc |-> "idle", id |-> 0, status |-> "", stampReviewed |-> FALSE, reviewedAt |-> NoField,
   hasNote |-> FALSE, adminNote |-> <<>>, setsNotes |-> FALSE, notes |-> <<>>]

\* updateData.adminNotes, computed from the document read by findOne
noteUpdate(currentNotes, adminNote, t) ==
  IF trim(adminNote) # <<>>
    THEN Append(currentNotes, [text |-> trim(adminNote), createdAt |-> t])
    ELSE currentNotes

\* validation, findOne and the building of updateData
adminFindOne(c, i, status, hasNote, adminNote) ==
  /\ noteCalls[c].pc = "idle"
  /\ IF status # "" /\ status \notin validStatuses
       THEN /\ lastOp' = Response("updateAdminInquiryStatus", i, 400, "", FALSE)
            /\ UNCHANGED noteCalls
       ELSE IF i \notin InquiryIds
         THEN /\ lastOp' = Response("updateAdminInquiryStatus", i, 404, "", TRUE)
              /\ UNCHANGED noteCalls
         ELSE /\ noteCalls' =
                   [noteCalls EXCEPT ![c] =
                      [pc |-> "read", id |-> i, status |-> status,
                       stampReviewed |-> status = "reviewed" /\ inquiries[i].status # "reviewed",
                       reviewedAt |-> now,
                       hasNote |-> hasNote, adminNote |-> adminNote,
                       setsNotes |-> hasNote,
                       notes |-> IF hasNote THEN noteUpdate(adminNotes[i], adminNote, now)
                                            ELSE <<>>]]
              /\ lastOp' = Response("updateAdminInquiryStatus", i, 0, "findOne", TRUE)
  /\ UNCHANGED <<inquiries, sessions, now, adminNotes>>
  /\ UNCHANGED <<contentVars, testimonials, connectionVars>>

\* updateOne with $set: updateData, and the response
adminUpdateOne(c) ==
  /\ noteCalls[c].pc = "read"
  /\ LET call == noteCalls[c]
         i == call.id
     IN /\ inquiries' =
             SetInquiry(i, [inquiries[i] EXCEPT
                              !.status = IF call.status = "" THEN @ ELSE call.status,
                              !.reviewedAt = IF call.stampReviewed THEN call.reviewedAt ELSE @])
        /\ adminNotes' = IF call.setsNotes THEN [adminNotes EXCEPT ![i] = call.notes]
                                           ELSE adminNotes
        /\ noteCalls' = [noteCalls EXCEPT ![c].pc = "done"]
        /\ lastOp' = Response("updateAdminInquiryStatus", i, 200, "", TRUE)
  /\ UNCHANGED <<sessions, now>>
  /\ UNCHANGED <<contentVars, testimonials, connectionVars>>

\* ---- content collections: slugs -------------------------------------------
\* content entities over all collections
MaxEntities == 3

\* \w of a regular expression, on the characters titles are written with
WordChars == {"a", "b", "0", "1", "2", "3", "4", "5", "6", "7", "8", "9", "_"}
isSeparator(ch) == isSpace(ch) \/ ch = "_" \/ ch = "-"

\* .replace(/[^\w\s-]/g, '')
removeSpecial(str) ==
  SelectSeq(str, LAMBDA ch : ch \in WordChars \/ isSpace(ch) \/ ch = "-")

\* .replace(/[\s_-]+/g, '-')
RECURSIVE hyphenate(_)
hyphenate(str) ==
  IF str = <<>> THEN <<>>
  ELSE IF isSeparator(Head(str))
    THEN IF Len(str) >= 2 /\ isSeparator(str[2])
           THEN hyphenate(Tail(str))
           ELSE <<"-">> \o hyphenate(Tail(str))
    ELSE <<Head(str)>> \o hyphenate(Tail(str))

\* .replace(/^-+|-+$/g, '')
RECURSIVE stripHyphens(_)
stripHyphens(str) ==
  IF str # <<>> /\ Head(str) = "-" THEN stripHyphens(Tail(str))
  ELSE IF str # <<>> /\ str[Len(str)] = "-"
    THEN stripHyphens(SubSeq(str, 1, Len(str) - 1))
    ELSE str

generateSlug(title) == stripHyphens(hyphenate(removeSpecial(trim(toLowerCase(title)))))

\* the decimal digits of a template literal's number
RECURSIVE decimal(_)
decimal(n) ==
  LET digit == <<"0", "1", "2", "3", "4", "5", "6", "7", "8", "9">>[(n % 10) + 1]
  IN IF n < 10 THEN <<digit>> ELSE decimal(n \div 10) \o <<digit>>

suffixed(originalSlug, slugCounter) == originalSlug \o <<"-">> \o decimal(slugCounter)

\* the documents of a collection; a deleted document leaves its position empty
Stored(collection) == {k \in DOMAIN collection : collection[k].exists}
slugsOf(collection) == {collection[k].slug : k \in Stored(collection)}

\* the loop "while (slugExists)" run without another request in between:
\* taken is the set of slugs findOne would find
RECURSIVE uniqueSlug(_, _, _, _)
uniqueSlug_firstTry(taken, originalSlug, candidate, slugCounter) == candidate

uniqueSlug(taken, originalSlug, candidate, slugCounter) ==
  IF candidate \in taken
    THEN uniqueSlug(taken, originalSlug, suffixed(originalSlug, slugCounter), slugCounter + 1)
    ELSE candidate

titleMissing(title) == title = <<>> \/ trim(title) = <<>>

newEntry(title, slug) == [exists |-> TRUE, title |-> trim(title), slug |-> slug]

createBlog(title) ==
  /\ IF titleMissing(title)
       THEN /\ lastOp' = Response("createBlog", 0, 400, "Title is required", FALSE)
            /\ UNCHANGED blogs
       ELSE LET blogSlug == generateSlug(title)
            IN /\ blogs' = Append(blogs, newEntry(title,
                                      uniqueSlug(slugsOf(blogs), blogSlug, blogSlug, 1)))
               /\ lastOp' = Response("createBlog", Len(blogs) + 1, 201, "", TRUE)
  /\ UNCHANGED <<inquiries, sessions, now>>
  /\ UNCHANGED <<projects, news, slugCalls, cloudinaryDeletes>>
  /\ UNCHANGED <<notesVars, testimonials, connectionVars>>

createNews(title) ==
  /\ IF titleMissing(title)
       THEN /\ lastOp' = Response("createNews", 0, 400, "Title is required", FALSE)
            /\ UNCHANGED news
       ELSE LET newsSlug == generateSlug(title)
            IN /\ news' = Append(news, newEntry(title,
                                    uniqueSlug(slugsOf(news), newsSlug, newsSlug, 1)))
               /\ lastOp' = Response("createNews", Len(news) + 1, 201, "", TRUE)
  /\ UNCHANGED <<inquiries, sessions, now>>
  /\ UNCHANGED <<projects, blogs, slugCalls, cloudinaryDeletes>>
  /\ UNCHANGED <<notesVars, testimonials, connectionVars>>

\* ---- projects: tag, plans and remote media --------------------------------
MaxProjects == 1
\* URLs of a gallery (images, plans) of a project
MaxMedia == 2
Tags == {"Residential", "Commercial"}
\* coverImage: "" is null (and an absent body field)
newProject(title, slug, tag, coverImage, images, plans) ==
  [exists |-> TRUE, title |-> trim(title), slug |-> slug, tag |-> tag,
   coverImage |-> coverImage, images |-> images, plans |-> plans]

\* plans: tag === 'Residential' ? [] : plans
residentialPlans(tag, plans) == IF tag = "Residential" THEN <<>> ELSE plans

\* uploadedCover: the cover uploaded by the middleware; images, uploadedPlans
\* and plansUrls: the uploads and the URL fields of the body
createProject(title, slug, tag, uploadedCover, coverImageUrl, images, uploadedPlans, plansUrls) ==
  /\ LET plans == uploadedPlans \o plansUrls
         coverImage == IF uploadedCover # "" THEN uploadedCover ELSE coverImageUrl
         projectSlug == IF slug # <<>> THEN slug ELSE generateSlug(title)
     IN IF titleMissing(title)
          THEN /\ lastOp' = Response("createProject", 0, 400, "Title is required", FALSE)
               /\ UNCHANGED projects
          ELSE IF tag \notin Tags
            THEN /\ lastOp' = Response("createProject", 0, 400, "Tag must be either", FALSE)
                 /\ UNCHANGED projects
            ELSE IF tag = "Residential" /\ plans # <<>>
              THEN /\ lastOp' = Response("createProject", 0, 400,
                                         "Residential projects cannot have plans", FALSE)
                   /\ UNCHANGED projects
              ELSE /\ projects' =
                        Append(projects,
                               newProject(title,
                                          uniqueSlug(slugsOf(projects), projectSlug, projectSlug, 1),
                                          tag, coverImage, images, residentialPlans(tag, plans)))
                   /\ lastOp' = Response("createProject", Len(projects) + 1, 201, "", TRUE)
  /\ cloudinaryDeletes' = {}
  /\ UNCHANGED <<inquiries, sessions, now>>
  /\ UNCHANGED <<blogs, news, slugCalls>>
  /\ UNCHANGED <<notesVars, testimonials, connectionVars>>

Range(q) == {q[k] : k \in DOMAIN q}
withoutDeleted(existing, deleted) == SelectSeq(existing, LAMBDA url : url \notin Range(deleted))

\* the deletions pushed to deletePromises
updateDeletes(existingProject, finalTag, deletedCoverImage, deletedImages, deletedPlans) ==
  (IF deletedCoverImage /\ existingProject.coverImage # ""
     THEN {existingProject.coverImage} ELSE {})
  \cup Range(deletedImages)
  \cup (IF finalTag # "Residential" THEN Range(deletedPlans) ELSE {})

\* updateData.coverImage, or the stored one when updateData has none;
\* hasCoverUrl: the body has a coverImage field
updateCover(existingProject, uploadedCover, hasCoverUrl, coverImageUrl, deletedCoverImage) ==
  IF uploadedCover # "" THEN uploadedCover
  ELSE IF hasCoverUrl
    THEN IF deletedCoverImage THEN ""
         ELSE IF coverImageUrl # "" THEN coverImageUrl ELSE existingProject.coverImage
    ELSE IF deletedCoverImage THEN "" ELSE existingProject.coverImage

\* updateData.slug, or the stored one when updateData has none
updateSlug(id, title, slug) ==
  LET projectSlug == IF slug # <<>> THEN slug ELSE generateSlug(title)
      others == {projects[k].slug : k \in Stored(projects) \ {id}}
  IN IF (slug # <<>> \/ title # <<>>) /\ projectSlug # <<>> /\ projectSlug # projects[id].slug
       THEN uniqueSlug(others, projectSlug, projectSlug, 1)
       ELSE projects[id].slug

\* tag "": no tag in the body.  newImages, newPlans: the uploads followed by
\* the URL fields of the body.  An absent array field is parsed to [].
updateProject(id, title, slug, tag, uploadedCover, hasCoverUrl, coverImageUrl, deletedCoverImage, deletedImages, newImages, deletedPlans, newPlans) ==
  /\ IF title # <<>> /\ trim(title) = <<>>
       THEN /\ lastOp' = Response("updateProject", id, 400, "Title cannot be empty", FALSE)
            /\ UNCHANGED <<projects, cloudinaryDeletes>>
       ELSE IF tag # "" /\ tag \notin Tags
         THEN /\ lastOp' = Response("updateProject", id, 400, "Tag must be either", FALSE)
              /\ UNCHANGED <<projects, cloudinaryDeletes>>
         ELSE IF id \notin Stored(projects)
           THEN /\ lastOp' = Response("updateProject", id, 404, "", TRUE)
                /\ UNCHANGED <<projects, cloudinaryDeletes>>
           ELSE LET existingProject == projects[id]
                    finalTag == IF tag # "" THEN tag ELSE existingProject.tag
                    finalImages == withoutDeleted(existingProject.images, deletedImages) \o newImages
                    finalPlans == residentialPlans(finalTag,
                                    withoutDeleted(existingProject.plans, deletedPlans) \o newPlans)
                IN /\ cloudinaryDeletes' =
                        updateDeletes(existingProject, finalTag, deletedCoverImage,
                                      deletedImages, deletedPlans)
                   /\ projects' =
                        [projects EXCEPT ![id] =
                           [@ EXCEPT !.title = IF title # <<>> THEN trim(title) ELSE @,
                                     !.tag = finalTag,
                                     !.coverImage = updateCover(existingProject, uploadedCover,
                                                      hasCoverUrl, coverImageUrl, deletedCoverImage),
                                     !.images = finalImages,
                                     !.plans = finalPlans,
                                     !.slug = updateSlug(id, title, slug)]]
                   /\ lastOp' = Response("updateProject", id, 200, "", TRUE)
  /\ UNCHANGED <<inquiries, sessions, now>>
  /\ UNCHANGED <<blogs, news, slugCalls>>
  /\ UNCHANGED <<notesVars, testimonials, connectionVars>>

mediaOf(project) ==
  (IF project.coverImage # "" THEN {project.coverImage} ELSE {})
  \cup Range(project.images) \cup Range(project.plans)

\* destroyOk: whether the media store carries out the deletions it is asked for
deleteProject(id, destroyOk) ==
  /\ IF id \notin Stored(projects)
       THEN /\ lastOp' = Response("deleteProject", id, 404, "", TRUE)
            /\ UNCHANGED <<projects, cloudinaryDeletes>>
       ELSE /\ cloudinaryDeletes' = mediaOf(projects[id])
            /\ projects' = [projects EXCEPT ![id].exists = FALSE]
            /\ lastOp' = Response("deleteProject", id, 200,
                                  IF destroyOk THEN "" ELSE "destroy failed", TRUE)
  /\ UNCHANGED <<inquiries, sessions, now>>
  /\ UNCHANGED <<blogs, news, slugCalls>>
  /\ UNCHANGED <<notesVars, testimonials, connectionVars>>

\* ---- a create as the document-store calls it makes ------------------------
MaxSlugCalls == 2
SlugCallIds == 1..MaxSlugCalls
noSlugCall ==
  [pc |-> "idle", collection |-> "", title |-> <<>>, originalSlug |-> <<>>,
   slug |-> <<>>, slugCounter |-> 1]

contentOf(name) == IF name = "projects" THEN projects ELSE blogs

\* the validation of createProject / createBlog and the first candidate
createBegin(c, name, title) ==
  /\ slugCalls[c].pc = "idle"
  /\ IF titleMissing(title)
       THEN /\ lastOp' = Response("create", 0, 400, "Title is required", FALSE)
            /\ UNCHANGED slugCalls
       ELSE /\ slugCalls' =
                 [slugCalls EXCEPT ![c] =
                    [pc |-> "findOne", collection |-> name, title |-> title,
                     originalSlug |-> generateSlug(title), slug |-> generateSlug(title),
                     slugCounter |-> 1]]
            /\ lastOp' = Response("create", 0, 0, "validated", FALSE)
  /\ UNCHANGED <<inquiries, sessions, now>>
  /\ UNCHANGED <<projects, blogs, news, cloudinaryDeletes>>
  /\ UNCHANGED <<notesVars, testimonials, connectionVars>>

\* slugExists = await collection.findOne({ slug }), and the loop's next candidate
createFindOne(c) ==
  /\ slugCalls[c].pc = "findOne"
  /\ LET call == slugCalls[c]
     IN slugCalls' =
          [slugCalls EXCEPT ![c] =
             IF call.slug \in slugsOf(contentOf(call.collection))
               THEN [call EXCEPT !.slug = suffixed(call.originalSlug, call.slugCounter),
                                 !.slugCounter = @ + 1]
               ELSE [call EXCEPT !.pc = "insertOne"]]
  /\ lastOp' = Response("create", 0, 0, "findOne", TRUE)
  /\ UNCHANGED <<inquiries, sessions, now>>
  /\ UNCHANGED <<projects, blogs, news, cloudinaryDeletes>>
  /\ UNCHANGED <<notesVars, testimonials, connectionVars>>

\* await collection.insertOne(...), and the response
createInsertOne(c) ==
  /\ slugCalls[c].pc = "insertOne"
  /\ LET call == slugCalls[c]
     IN IF call.collection = "projects"
          THEN /\ projects' = Append(projects, newProject(call.title, call.slug, "Commercial",
                                                         "", <<>>, <<>>))
               /\ lastOp' = Response("createProject", Len(projects) + 1, 201, "", TRUE)
               /\ UNCHANGED blogs
          ELSE /\ blogs' = Append(blogs, newEntry(call.title, call.slug))
               /\ lastOp' = Response("createBlog", Len(blogs) + 1, 201, "", TRUE)
               /\ UNCHANGED projects
  /\ slugCalls' = [slugCalls EXCEPT ![c].pc = "done"]
  /\ UNCHANGED <<inquiries, sessions, now>>
  /\ UNCHANGED <<news, cloudinaryDeletes>>
  /\ UNCHANGED <<notesVars, testimonials, connectionVars>>

\* ---- testimonials ---------------------------------------------------------
MaxTestimonials == 3
\* email and phoneNumber of a request body; <<>> is an absent field
TestimonialEmails ==
  {<<>>,
   <<"a", "@", "a", ".", "a">>,
   <<"A", "@", "a", ".", "A">>,
   <<" ", "a", "@", "a", ".", "a">>,
   <<"b", "@", "a", ".", "a">>,
   <<"a", "@", "b", ".", "a">>}
PhoneNumbers == {<<>>, <<"1">>, <<"1", " ">>, <<"2">>}

\* the route's validation middleware, for a body with a valid fullName and review
validateCreateTestimonial(email) == email # <<>> /\ emailRegexTest(email)

normalizedEmail_asTyped(email) == email

\* email.trim().toLowerCase()
normalizedEmail(email) == toLowerCase(trim(email))

\* phoneNumber?.trim() || null
normalizedPhone(phoneNumber) == trim(phoneNumber)

\* POST /api/testimonials: validateCreateTestimonial, then createTestimonial
createTestimonial(email, phoneNumber) ==
  /\ IF ~validateCreateTestimonial(email)
       THEN /\ lastOp' = Response("createTestimonial", 0, 400, "validation", FALSE)
            /\ UNCHANGED testimonials
       ELSE IF \E k \in DOMAIN testimonials : testimonials[k].email = normalizedEmail(email)
         THEN /\ lastOp' = Response("createTestimonial", 0, 409, "email", TRUE)
              /\ UNCHANGED testimonials
         ELSE IF /\ normalizedPhone(phoneNumber) # <<>>
                 /\ \E k \in DOMAIN testimonials :
                       testimonials[k].phoneNumber = normalizedPhone(phoneNumber)
           THEN /\ lastOp' = Response("createTestimonial", 0, 409, "phone number", TRUE)
                /\ UNCHANGED testimonials
           ELSE /\ testimonials' =
                     Append(testimonials,
                            [email |-> normalizedEmail(email),
                             phoneNumber |-> normalizedPhone(phoneNumber),
                             status |-> "pending"])
                /\ lastOp' = Response("createTestimonial", Len(testimonials) + 1, 201, "", TRUE)
  /\ UNCHANGED <<inquiries, sessions, now>>
  /\ UNCHANGED <<notesVars, contentVars, connectionVars>>

\* ---- the shared document-store connection ---------------------------------
MaxCallers == 3
CallerIds == 1..MaxCallers
\* where a call of connectToDatabase stands: "waiting" at the one-second
\* timer, "ping" at the ping of the cached handle, "connect" at
\* client.connect(), "confirm" at the ping that follows it
InConnectSection(c) == callers[c] \in {"connect", "confirm"}

\* the function body up to its first await
enterBody(c) ==
  IF isConnecting
    THEN /\ callers' = [callers EXCEPT ![c] = "waiting"]
         /\ UNCHANGED <<dbHandle, isConnecting>>
    ELSE IF dbHandle
      THEN /\ callers' = [callers EXCEPT ![c] = "ping"]
           /\ UNCHANGED <<dbHandle, isConnecting>>
      ELSE /\ isConnecting' = TRUE
           /\ callers' = [callers EXCEPT ![c] = "connect"]
           /\ UNCHANGED dbHandle

\* a request handler calls connectToDatabase()
connectToDatabase(c) ==
  /\ callers[c] \in {"idle", "returned", "threw"}
  /\ enterBody(c)
  /\ UNCHANGED <<serverUp, funnelVars, notesVars, contentVars, testimonials>>

\* the timer fires: return connectToDatabase()
retryAfterTimeout(c) ==
  /\ callers[c] = "waiting"
  /\ enterBody(c)
  /\ UNCHANGED <<serverUp, funnelVars, notesVars, contentVars, testimonials>>

\* the ping of the cached handle answers or fails; on failure db = null and
\* the call goes on to isConnecting = true and client.connect()
pingSettles(c) ==
  /\ callers[c] = "ping"
  /\ IF serverUp
       THEN /\ callers' = [callers EXCEPT ![c] = "returned"]
            /\ UNCHANGED <<dbHandle, isConnecting>>
       ELSE /\ dbHandle' = FALSE
            /\ isConnecting' = TRUE
            /\ callers' = [callers EXCEPT ![c] = "connect"]
  /\ UNCHANGED <<serverUp, funnelVars, notesVars, contentVars, testimonials>>

\* client.connect() resolves or rejects
connectSettles(c) ==
  /\ callers[c] = "connect"
  /\ IF serverUp
       THEN /\ callers' = [callers EXCEPT ![c] = "confirm"]
            /\ UNCHANGED <<dbHandle, isConnecting>>
       ELSE /\ isConnecting' = FALSE
            /\ callers' = [callers EXCEPT ![c] = "threw"]
            /\ UNCHANGED dbHandle
  /\ UNCHANGED <<serverUp, funnelVars, notesVars, contentVars, testimonials>>

\* the confirming ping answers (db is set, isConnecting = false, return) or
\* fails (catch: isConnecting = false, throw)
confirmSettles(c) ==
  /\ callers[c] = "confirm"
  /\ IF serverUp
       THEN /\ dbHandle' = TRUE
            /\ isConnecting' = FALSE
            /\ callers' = [callers EXCEPT ![c] = "returned"]
       ELSE /\ isConnecting' = FALSE
            /\ callers' = [callers EXCEPT ![c] = "threw"]
            /\ UNCHANGED dbHandle
  /\ UNCHANGED <<serverUp, funnelVars, notesVars, contentVars, testimonials>>

\* the document store becomes unreachable, or reachable again
ServerFlips ==
  /\ serverUp' = ~serverUp
  /\ UNCHANGED <<dbHandle, isConnecting, callers>>
  /\ UNCHANGED <<funnelVars, notesVars, contentVars, testimonials>>

\* ---- the clock read by new Date() ---------------------------------------
Tick ==
  /\ now < MaxClock
  /\ now' = now + 1
  /\ UNCHANGED <<inquiries, sessions, lastOp>>
  /\ UNCHANGED siteVars

Init ==
  /\ inquiries = <<>>
  /\ sessions = <<>>
  /\ now = 1
  /\ lastOp = Response("none", 0, 0, "", FALSE)
  /\ adminNotes = [i \in 1..MaxInquiries |-> <<>>]
  /\ noteCalls = [c \in NoteCallIds |-> noNoteCall]
  /\ projects = <<>>
  /\ blogs = <<>>
  /\ news = <<>>
  /\ slugCalls = [c \in SlugCallIds |-> noSlugCall]
  /\ cloudinaryDeletes = {}
  /\ testimonials = <<>>
  /\ dbHandle = FALSE
  /\ isConnecting = FALSE
  /\ callers = [c \in CallerIds |-> "idle"]
  /\ serverUp = TRUE

Next ==
  \/ \E c \in RequestClientTypes, e \in Emails :
        Len(inquiries) < MaxInquiries /\ createInquiryIdentity(c, e)
  \* no handler reads documentUrls: requests carry no upload here
  \/ \E i \in 1..MaxInquiries : updateInquiryContext(i, 0)
  \/ \E i \in 1..MaxInquiries, p \in Paths \cup {"other"} : updateInquiryPath(i, p)
  \/ \E i \in 1..MaxInquiries : submitGeneralInquiry(i)
  \/ \E i \in 1..MaxInquiries : updateConsultationDetails(i)
  \/ \E s \in 1..MaxSessions, p \in {"paid", "unpaid"}, v \in BOOLEAN :
        StripeCompleteSession(s, p, v)
  \/ \E s \in 1..MaxSessions : StripeAsyncPaymentSucceeds(s)
  \/ \E i \in 1..MaxInquiries, d \in Durations, r \in BOOLEAN :
        createCheckoutSession(i, d, r)
  \/ \E t \in EventTypes, s \in 1..MaxSessions, ok \in BOOLEAN : handleWebhook(t, s, ok)
  \/ \E s \in 1..MaxSessions : getCheckoutSession(s)
  \/ \E i \in 1..MaxInquiries : verifyPaymentStatus(i)
  \* a complete body: the provider is called
  \/ \E i \in 0..MaxInquiries, c \in 1..MaxSessions, v \in 1..MaxSessions,
        taxOk \in BOOLEAN, ok \in BOOLEAN :
        submitBusinessBilling(i, c, v, TRUE, TRUE, taxOk, ok)
  \* a body with one required field missing: no provider call has an outcome
  \/ \E i \in 0..MaxInquiries, missing \in RequiredBillingFields :
        submitBusinessBilling(i, IF missing = "customerId" THEN 0 ELSE 1,
                              IF missing = "invoiceId" THEN 0 ELSE 1,
                              missing # "companyName", missing # "address", TRUE, TRUE)
  \/ Tick

Spec == Init /\ [][Next]_vars

\* The handlers that write an inquiry's status (submit, webhook, session
\* lookup, fallback reconciler, admin status update) and the steps that
\* enable them.
AdminStatuses == {"", "reviewed", "completed", "archived"}

NextAdmin ==
  \/ \E c \in RequestClientTypes, e \in Emails :
        Len(inquiries) < MaxInquiries /\ createInquiryIdentity(c, e)
  \/ \E i \in 1..MaxInquiries, p \in Paths : updateInquiryPath(i, p)
  \/ \E i \in 1..MaxInquiries : submitGeneralInquiry(i)
  \/ \E i \in 1..MaxInquiries, d \in Durations, r \in BOOLEAN :
        createCheckoutSession(i, d, r)
  \/ \E s \in 1..MaxSessions, p \in {"paid", "unpaid"}, v \in BOOLEAN :
        StripeCompleteSession(s, p, v)
  \/ \E s \in 1..MaxSessions : StripeAsyncPaymentSucceeds(s)
  \/ \E t \in EventTypes, s \in 1..MaxSessions, ok \in BOOLEAN : handleWebhook(t, s, ok)
  \/ \E s \in 1..MaxSessions : getCheckoutSession(s)
  \/ \E i \in 1..MaxInquiries : verifyPaymentStatus(i)
  \/ \E i \in 1..MaxInquiries, st \in AdminStatuses : updateAdminInquiryStatus(i, st)
  \/ Tick

SpecAdmin == Init /\ [][NextAdmin]_vars

\* The funnel's first steps on several inquiries: what issuing ids needs.
\* The clock stands still: submittedAt is the only timestamp written here.
NextIdentity ==
  \/ \E c \in RequestClientTypes, e \in Emails :
        Len(inquiries) < MaxIdentities /\ createInquiryIdentity(c, e)
  \/ \E i \in 1..MaxIdentities, p \in Paths : updateInquiryPath(i, p)
  \/ \E i \in 1..MaxIdentities : submitGeneralInquiry(i)

SpecIdentity == Init /\ [][NextIdentity]_vars

\* The consult journey of business clients, each call of a journey made once
\* the one before it has taken effect, while unverified webhook deliveries
\* arrive at any time.
NextScenario ==
  \/ \E e \in Emails :
        /\ Len(inquiries) < MaxIdentities
        /\ emailRegexTest(e)
        /\ createInquiryIdentity("business", e)
  \/ \E i \in InquiryIds :
        inquiries[i].step = 1 /\ updateInquiryContext(i, 2)
  \/ \E i \in InquiryIds :
        inquiries[i].step = 2 /\ updateInquiryPath(i, "consult")
  \/ \E i \in InquiryIds :
        /\ inquiries[i].step = 3
        /\ inquiries[i].stripeSessionId = NoField
        /\ createCheckoutSession(i, "60", TRUE)
  \/ \E s \in SessionIds : StripeCompleteSession(s, "paid", TRUE)
  \/ \E s \in SessionIds :
        /\ inquiries[sessions[s].inquiryId].paymentStatus = "pending"
        /\ handleWebhook("checkout.session.completed", s, TRUE)
  \/ \E i \in InquiryIds, taxOk \in BOOLEAN :
        /\ inquiries[i].invoiceStatus = "billing_pending"
        /\ submitBusinessBilling(i, inquiries[i].stripeCustomerId,
                                 inquiries[i].stripeInvoiceId, TRUE, TRUE, taxOk, TRUE)
  \/ \E t \in EventTypes, s \in SessionIds : handleWebhook(t, s, FALSE)
  \/ Tick

SpecScenario == Init /\ [][NextScenario]_vars

\* Admin status updates on one inquiry, their findOne and updateOne calls
\* interleaved with those of other requests.
NextNotes ==
  \/ \E c \in ClientTypes, e \in Emails :
        Len(inquiries) < MaxInquiries /\ createInquiryIdentity(c, e)
  \/ \E c \in NoteCallIds, i \in 1..MaxInquiries, st \in {"", "reviewed", "archived"},
        h \in BOOLEAN, n \in NoteTexts :
        (h \/ n = <<>>) /\ adminFindOne(c, i, st, h, n)
  \/ \E c \in NoteCallIds : adminUpdateOne(c)
  \/ Tick

SpecNotes == Init /\ [][NextNotes]_vars

\* Creates of content entities, one request at a time.
Titles ==
  {<<>>, <<" ">>, <<"!">>, <<"A">>, <<" ", "a", "!">>, <<"a", " ", "1">>, <<"a", "_", "-", "1">>}
Slugs == {<<>>, <<"a">>, <<"a", "-", "1">>}
Entities == Len(projects) + Len(blogs) + Len(news)

NextSlugs ==
  \/ \E t \in Titles, sl \in Slugs, tag \in Tags \cup {""} :
        Entities < MaxEntities /\ createProject(t, sl, tag, "", "", <<>>, <<>>, <<>>)
  \/ \E t \in Titles : Entities < MaxEntities /\ createBlog(t)
  \/ \E t \in Titles : Entities < MaxEntities /\ createNews(t)

SpecSlugs == Init /\ [][NextSlugs]_vars

\* One project, its tag, its plans and its remote media.  A request adds a
\* URL to a gallery while the gallery holds fewer than MaxMedia.
Covers == {"", "c2"}
roomFor(id, field, added) ==
  id \in DOMAIN projects /\ Len(projects[id][field]) + Len(added) <= MaxMedia

NextProjects ==
  \/ \E tag \in Tags \cup {""}, c \in {"", "c1"}, up \in {<<>>, <<"p1">>}, pu \in {<<>>, <<"p2">>} :
        /\ Len(projects) < MaxProjects
        /\ createProject(<<"A">>, <<>>, tag, c, "", <<"i1">>, up, pu)
  \/ \E id \in 1..MaxProjects, tag \in Tags \cup {"", "Other"}, c \in Covers, dc \in BOOLEAN,
        di \in {<<>>, <<"i1">>}, dp \in {<<>>, <<"p1">>}, np \in {<<>>, <<"p3">>} :
        /\ np # <<>> => roomFor(id, "plans", np)
        /\ updateProject(id, <<>>, <<>>, tag, c, FALSE, "", dc, di, <<>>, dp, np)
  \/ \E id \in 1..MaxProjects, c \in {"c3"}, dc \in BOOLEAN, t \in {<<>>, <<" ">>} :
        /\ roomFor(id, "images", <<"i2">>)
        /\ updateProject(id, t, <<>>, "", "", TRUE, c, dc, <<>>, <<"i2">>, <<>>, <<>>)
  \/ \E id \in 1..MaxProjects, ok \in BOOLEAN : deleteProject(id, ok)

SpecProjects == Init /\ [][NextProjects]_vars

\* Creates of projects and blogs whose document-store calls interleave.
NextSlugRace ==
  \/ \E c \in SlugCallIds, name \in {"projects", "blogs"}, t \in {<<" ">>, <<"A">>, <<"a", " ", "1">>} :
        createBegin(c, name, t)
  \/ \E c \in SlugCallIds : createFindOne(c)
  \/ \E c \in SlugCallIds : createInsertOne(c)

SpecSlugRace == Init /\ [][NextSlugRace]_vars

\* Testimonials sent by visitors, one request at a time.
NextTestimonials ==
  \E e \in TestimonialEmails, ph \in PhoneNumbers :
     Len(testimonials) < MaxTestimonials /\ createTestimonial(e, ph)

SpecTestimonials == Init /\ [][NextTestimonials]_vars

\* Request handlers calling connectToDatabase at any time.
NextConnect ==
  \/ \E c \in CallerIds : connectToDatabase(c)
  \/ \E c \in CallerIds : retryAfterTimeout(c)
  \/ \E c \in CallerIds : pingSettles(c)
  \/ \E c \in CallerIds : connectSettles(c)
  \/ \E c \in CallerIds : confirmSettles(c)
  \/ ServerFlips

SpecConnect == Init /\ [][NextConnect]_vars

\* ==== properties ===========================================================
\* A step taken by handler op called with id (every handler sets lastOp and
\* leaves the clock alone; Tick leaves lastOp alone).
Handled(op, id) == lastOp'.op = op /\ lastOp'.id = id /\ now' = now

CompletedDelivery(r, s) ==
  r = Response("handleWebhook", s, 200, "checkout.session.completed", TRUE)

ReconcileFields(inq) ==
  <<inq.paymentStatus, inq.status, inq.invoiceStatus,
    inq.stripeCustomerId, inq.stripeInvoiceId, inq.paidAt>>

PaymentFields(inq) ==
  <<inq.consultationDetails, inq.stripeSessionId, inq.paymentStatus,
    inq.stripeCustomerId, inq.stripeInvoiceId, inq.paidAt, inq.invoiceStatus>>

\* C1: when the verified paid 'checkout completed' event of a session is
\* delivered again at a later time, the inquiry's paidAt and invoiceStatus
\* stay what the first delivery made them.
C1_RedeliveryIdempotent ==
  [][\A s \in SessionIds :
       (/\ CompletedDelivery(lastOp, s)
        /\ sessions[s].completedAs = "paid"
        /\ CompletedDelivery(lastOp', s))
       => /\ inquiries'[sessions[s].inquiryId].paidAt = inquiries[sessions[s].inquiryId].paidAt
          /\ inquiries'[sessions[s].inquiryId].invoiceStatus =
               inquiries[sessions[s].inquiryId].invoiceStatus]_vars

\* C2: for an inquiry whose checkout session completed paid, running the
\* fallback reconciler and then the webhook leaves the same paymentStatus,
\* status, invoiceStatus, customer/invoice references and paidAt as running
\* the webhook and then the fallback reconciler.
C2_ReconcilersCommute ==
  \A i \in InquiryIds :
    LET s == inquiries[i].stripeSessionId
        inq == inquiries[i]
        verify(q, t) == verifyUpdate(q, sessions[s].payment_status, t)
        webhook(q, t) == webhookCompletedSet(q, sessions[s], sessions[s].completedAs, t)
    IN  (s >= 1 /\ sessions[s].completedAs = "paid")
        => ReconcileFields(webhook(verify(inq, now), now + 1))
             = ReconcileFields(verify(webhook(inq, now), now + 1))

\* C3: once an inquiry's paymentStatus is 'paid', no later operation makes it
\* anything else.
C3_PaymentStatusMonotone ==
  [][\A i \in InquiryIds :
       inquiries[i].paymentStatus = "paid" => inquiries'[i].paymentStatus = "paid"]_vars

\* C4: verifyPaymentStatus called on an inquiry whose paymentStatus is already
\* 'paid' leaves the inquiry document as it was, whatever the session reports.
C4_VerifyKeepsPaid ==
  [][\A i \in InquiryIds :
       (Handled("verifyPaymentStatus", i) /\ inquiries[i].paymentStatus = "paid")
       => inquiries' = inquiries]_vars

C4_Witness ==
  \E i \in InquiryIds :
    /\ lastOp = Response("verifyPaymentStatus", i, 200, "verified", TRUE)
    /\ inquiries[i].paymentStatus = "paid"
    /\ sessions[inquiries[i].stripeSessionId].payment_status = "paid"
    /\ inquiries[i].paidAt >= 1
    /\ inquiries[i].paidAt < now

\* C5: a business inquiry whose invoiceStatus is 'finalized' is paid and had
\* its billing details collected after the payment; the paid webhook of a
\* private inquiry sets invoiceStatus to 'finalized' itself.
C5_FinalizedAfterBilling ==
  /\ [](\A i \in InquiryIds :
          (inquiries[i].clientType = "business" /\ inquiries[i].invoiceStatus = "finalized")
          => /\ inquiries[i].paymentStatus = "paid"
             /\ inquiries[i].paidAt >= 1
             /\ inquiries[i].billingCollectedAt >= inquiries[i].paidAt)
  /\ [][\A s \in SessionIds :
          (/\ CompletedDelivery(lastOp', s) /\ now' = now
           /\ sessions[s].completedAs = "paid"
           /\ inquiries[sessions[s].inquiryId].clientType = "private")
          => inquiries'[sessions[s].inquiryId].invoiceStatus = "finalized"]_vars

\* C6: a verified 'checkout completed' delivery with payment_status paid leaves
\* the inquiry with paymentStatus and status 'paid', paidAt stamped with the
\* delivery time, the event's customer and invoice references, and
\* invoiceStatus 'billing_pending' (business client) or 'finalized' (private).
C6_WebhookPaidTransition ==
  [][\A s \in SessionIds :
       (CompletedDelivery(lastOp', s) /\ now' = now /\ sessions[s].completedAs = "paid")
       => LET before == inquiries[sessions[s].inquiryId]
              after == inquiries'[sessions[s].inquiryId]
          IN  /\ after.paymentStatus = "paid"
              /\ after.status = "paid"
              /\ after.paidAt = now
              /\ after.stripeCustomerId = sessions[s].customer
              /\ after.stripeInvoiceId = sessions[s].invoice
              /\ after.invoiceStatus = IF before.clientType = "business"
                                         THEN "billing_pending" ELSE "finalized"]_vars

C6_Witness ==
  \E s \in SessionIds :
    /\ CompletedDelivery(lastOp, s)
    /\ sessions[s].completedAs = "paid"
    /\ inquiries[sessions[s].inquiryId].clientType = "business"
    /\ inquiries[sessions[s].inquiryId].invoiceStatus = "billing_pending"
    /\ inquiries[sessions[s].inquiryId].stripeCustomerId = s
    /\ inquiries[sessions[s].inquiryId].paidAt = now

\* C7: a webhook delivery whose signature does not verify is answered 400 and
\* neither reaches the document store nor changes any inquiry, whatever event
\* type and payload it carries.
C7_WebhookFailsClosed ==
  [][\A t \in EventTypes, s \in SessionIds :
       handleWebhook(t, s, FALSE)
       => /\ lastOp'.code = 400
          /\ ~lastOp'.db
          /\ inquiries' = inquiries]_vars

C7_Witness ==
  \E s \in SessionIds :
    /\ lastOp = Response("handleWebhook", s, 400, "checkout.session.completed", FALSE)
    /\ sessions[s].completedAs = "none"
    /\ inquiries[sessions[s].inquiryId].paymentStatus = "pending"

\* C8: on an inquiry whose selectedPath is 'general' the consultation-details
\* call is rejected and adds no consultationDetails; on an inquiry whose
\* selectedPath is 'consult' submit-general is rejected and leaves status alone.
C8_PathExclusivity ==
  [][\A i \in InquiryIds :
       /\ (Handled("updateConsultationDetails", i) /\ inquiries[i].selectedPath = "general")
          => /\ lastOp'.code >= 400
             /\ inquiries'[i].consultationDetails = inquiries[i].consultationDetails
       /\ (Handled("submitGeneralInquiry", i) /\ inquiries[i].selectedPath = "consult")
          => /\ lastOp'.code >= 400
             /\ inquiries'[i].status = inquiries[i].status]_vars

\* C9: no step gives consultation or payment fields to, or changes them on, an
\* inquiry whose selectedPath is 'general'.
C9_GeneralPathHasNoPaymentFields ==
  [][\A i \in InquiryIds :
       inquiries[i].selectedPath = "general"
       => PaymentFields(inquiries'[i]) = PaymentFields(inquiries[i])]_vars

\* C10: once an inquiry is submitted or has a checkout session, its
\* selectedPath no longer changes.
C10_PathImmutable ==
  [][\A i \in InquiryIds :
       (inquiries[i].status = "submitted" \/ inquiries[i].stripeSessionId >= 1)
       => inquiries'[i].selectedPath = inquiries[i].selectedPath]_vars

\* C11: over every sequence of funnel calls, repeated and out-of-order calls
\* included, an inquiry's step never decreases and always lies in 1..4.
C11_StepMonotone ==
  [][\A i \in InquiryIds :
       /\ inquiries'[i].step >= inquiries[i].step
       /\ inquiries'[i].step \in 1..4]_vars

\* C12: in every reachable state, whatever funnel, payment, webhook and admin
\* operations produced it, the status of every inquiry is one of the nine
\* values of the status enum.
C12_StatusInEnum ==
  \A i \in InquiryIds : inquiries[i].status \in validStatuses

\* C13: submit-general on an inquiry whose selectedPath is 'general' succeeds
\* and sets status 'submitted', submittedAt to the time of the call and step
\* 4; on any other selectedPath, unset included, it is answered 400 and the
\* inquiry stays as it was.
C13_SubmitOnlyGeneral ==
  [][\A i \in InquiryIds :
       Handled("submitGeneralInquiry", i)
       => IF inquiries[i].selectedPath = "general"
            THEN /\ lastOp'.code = 200
                 /\ inquiries'[i].status = "submitted"
                 /\ inquiries'[i].submittedAt = now
                 /\ inquiries'[i].step = 4
            ELSE /\ lastOp'.code = 400
                 /\ inquiries' = inquiries]_vars

C13_Witness ==
  \E i \in InquiryIds :
    /\ lastOp = Response("submitGeneralInquiry", i, 400, "", TRUE)
    /\ inquiries[i].selectedPath = "consult"
    /\ inquiries[i].status = "draft"
    /\ inquiries[i].submittedAt = NoField

\* C14: a submit call on a general-path inquiry that is already submitted
\* (status 'submitted', step 4) fails and leaves submittedAt and status as
\* they were.
C14_SecondSubmitFails ==
  [][\A i \in InquiryIds :
       (/\ Handled("submitGeneralInquiry", i)
        /\ inquiries[i].selectedPath = "general"
        /\ inquiries[i].status = "submitted"
        /\ inquiries[i].step = 4)
       => /\ lastOp'.code >= 400
          /\ inquiries'[i].submittedAt = inquiries[i].submittedAt
          /\ inquiries'[i].status = inquiries[i].status]_vars

\* C15: when business billing details are submitted for an inquiry and the
\* customer update and the invoice finalization both succeed, the inquiry ends
\* with status 'paid', invoiceStatus 'finalized' and billingCollectedAt the
\* time of the call.
C15_BillingSuccess ==
  [][\A i \in InquiryIds :
       (Handled("submitBusinessBilling", i) /\ lastOp'.code = 200)
       => /\ inquiries'[i].status = "paid"
          /\ inquiries'[i].invoiceStatus = "finalized"
          /\ inquiries'[i].billingCollectedAt = now]_vars

\* A complete billing request for customer c that passes the handler's own
\* checks, so that the provider's customer update is made and succeeds.
BillingReachesProvider(i, c, v) ==
  /\ i = 0 \/ i \in InquiryIds
  /\ i # 0 => /\ inquiries[i].stripeCustomerId \in {NoField, NullValue, c}
              /\ inquiries[i].stripeInvoiceId \in {NoField, NullValue, v}
  /\ CustomerExists(c)

RECURSIVE SumSeq(_)
SumSeq(q) == IF q = <<>> THEN 0 ELSE Head(q) + SumSeq(Tail(q))

PriceOf(duration, roadmapReport) ==
  (CASE duration = "30" -> 6499
     [] duration = "90" -> 15999
     [] OTHER -> 9999)
  + (IF roadmapReport THEN 5000 ELSE 0)

\* C18: a checkout requested for an inquiry with a usable email creates a
\* session whose line-item unit amounts sum to 6499, 9999 or 15999 cents for
\* duration 30, 60 or 90, plus 5000 when the roadmap report is asked for; a
\* duration outside the table is priced as duration 60.
C18_CheckoutPrice ==
  [][\A i \in InquiryIds, d \in Durations, r \in BOOLEAN :
       (/\ Handled("createCheckoutSession", i)
        /\ checkoutEmailOk(inquiries[i].email)
        /\ createCheckoutSession(i, d, r))
       => /\ lastOp'.code = 200
          /\ Len(sessions') = Len(sessions) + 1
          /\ SumSeq(lastOp'.line_items) = PriceOf(d, r)]_vars

NoUpperCase(str) == \A k \in 1..Len(str) : str[k] # "A"
NoOuterSpace(str) == str = <<>> \/ (~isSpace(str[1]) /\ ~isSpace(str[Len(str)]))

\* stored is typed without the blanks around it, letter for letter in lower case
TrimmedLowerOf(stored, typed) ==
  /\ NoUpperCase(stored)
  /\ NoOuterSpace(stored)
  /\ \E a \in 0..Len(typed) :
       /\ a + Len(stored) <= Len(typed)
       /\ \A k \in 1..Len(typed) :
            IF k > a /\ k <= a + Len(stored)
              THEN stored[k - a] \in {typed[k], "a"} /\ (stored[k - a] # typed[k] => typed[k] = "A")
              ELSE isSpace(typed[k])

\* C20: a create-identity request that passes validation inserts an inquiry
\* with step 1 and status 'draft' under an id that no existing inquiry has,
\* leaves the existing inquiries alone, and stores the email trimmed and
\* lowercased.
C20_CreateIdentity ==
  [][\A c \in RequestClientTypes, e \in Emails :
       (/\ lastOp'.op = "createInquiryIdentity"
        /\ validateInquiryIdentity(c, e)
        /\ createInquiryIdentity(c, e))
       => /\ lastOp'.code = 201
          /\ lastOp'.id \notin InquiryIds
          /\ DOMAIN inquiries' = InquiryIds \cup {lastOp'.id}
          /\ \A j \in InquiryIds : inquiries'[j] = inquiries[j]
          /\ inquiries'[lastOp'.id].step = 1
          /\ inquiries'[lastOp'.id].status = "draft"
          /\ TrimmedLowerOf(inquiries'[lastOp'.id].email, e)]_vars

C20_Witness ==
  /\ Len(inquiries) = 2
  /\ lastOp = Response("createInquiryIdentity", 2, 201, "", TRUE)
  /\ inquiries[2].email = <<"a", "@", "a", ".", "a">>
  /\ inquiries[2].step = 1
  /\ inquiries[2].status = "draft"
  /\ inquiries[1].step = 4
  /\ inquiries[1].status = "submitted"

\* C19: in the consult journey (business client, context with 2 documents,
\* path 'consult', checkout for duration 60 with the roadmap report, paid
\* webhook), the inquiry shows status 'paid' and invoiceStatus
\* 'billing_pending' once the webhook is delivered, and invoiceStatus
\* 'finalized' once business billing is submitted.
C19_ConsultScenario ==
  \A i \in InquiryIds :
    /\ (inquiries[i].paidAt >= 1 /\ inquiries[i].billingCollectedAt = NoField)
       => /\ inquiries[i].status = "paid"
          /\ inquiries[i].invoiceStatus = "billing_pending"
    /\ inquiries[i].billingCollectedAt >= 1
       => /\ inquiries[i].status = "paid"
          /\ inquiries[i].invoiceStatus = "finalized"

C19_Witness ==
  \E i \in InquiryIds :
    /\ lastOp = Response("submitBusinessBilling", i, 200, "", TRUE)
    /\ inquiries[i].clientType = "business"
    /\ Len(inquiries[i].documentUrls) = 2
    /\ inquiries[i].selectedPath = "consult"
    /\ inquiries[i].stripeSessionId >= 1
    /\ sessions[inquiries[i].stripeSessionId].completedAs = "paid"
    /\ inquiries[i].status = "paid"
    /\ inquiries[i].paidAt >= 1
    /\ inquiries[i].billingCollectedAt > inquiries[i].paidAt
    /\ inquiries[i].invoiceStatus = "finalized"

\* C26: for an inquiry whose session completed paid and that no webhook has
\* reached, the fallback reconciler leaves the inquiry with the paymentStatus,
\* status, paidAt, customer/invoice references and invoiceStatus that the paid
\* webhook delivered at that moment would have left.
C26_VerifyAsWebhook ==
  [][\A i \in InquiryIds :
       (/\ Handled("verifyPaymentStatus", i)
        /\ inquiries[i].stripeSessionId >= 1
        /\ sessions[inquiries[i].stripeSessionId].completedAs = "paid"
        /\ inquiries[i].paymentStatus = "pending"
        /\ inquiries[i].paidAt = NoField)
       => ReconcileFields(inquiries'[i])
            = ReconcileFields(webhookCompletedSet(inquiries[i],
                                sessions[inquiries[i].stripeSessionId], "paid", now))]_vars

\* C27: a session lookup on a session that is not paid, or whose inquiry
\* already shows paymentStatus 'paid', leaves the inquiry as it was, paidAt
\* included.
C27_LookupWritesOnlyCatchUp ==
  [][\A s \in SessionIds :
       (/\ Handled("getCheckoutSession", s)
        /\ \/ sessions[s].payment_status # "paid"
           \/ inquiries[sessions[s].inquiryId].paymentStatus = "paid")
       => inquiries' = inquiries]_vars

\* C28: once billing finalization has made a business inquiry's invoiceStatus
\* 'finalized', no later step sets it to 'billing_pending' or 'pending'.
C28_InvoiceStatusKept ==
  [][\A i \in InquiryIds :
       (/\ inquiries[i].clientType = "business"
        /\ inquiries[i].invoiceStatus = "finalized"
        /\ inquiries[i].billingCollectedAt >= 1)
       => inquiries'[i].invoiceStatus \notin {"billing_pending", "pending"}]_vars

\* C21: adminNotes is append-only, also when status updates overlap: an
\* inquiry's adminNotes holds the trimmed text of the note of every answered
\* status update that carried a non-blank note, one entry for each of them.
NotedCalls(i) ==
  {c \in NoteCallIds : /\ noteCalls[c].pc = "done"
                       /\ noteCalls[c].id = i
                       /\ noteCalls[c].hasNote
                       /\ trim(noteCalls[c].adminNote) # <<>>}

C21_NotesAppendOnly ==
  \A i \in InquiryIds :
    /\ Len(adminNotes[i]) = Cardinality(NotedCalls(i))
    /\ \A c \in NotedCalls(i) :
         \E k \in DOMAIN adminNotes[i] : adminNotes[i][k].text = trim(noteCalls[c].adminNote)

\* C23: creates made one after the other give unique slugs by numeric
\* suffix: a create answered 201 stores the first of base, base-1, base-2, ...
\* that no entity of its collection has (base: the slug of the title, or the
\* slug field of a project's body), and afterwards no two entities of a
\* collection share a slug.
Candidate(base, k) == IF k = 0 THEN base ELSE suffixed(base, k)

FirstFree(taken, base, slug) ==
  \E k \in 0..MaxEntities :
    /\ slug = Candidate(base, k)
    /\ slug \notin taken
    /\ \A j \in 0..(k - 1) : Candidate(base, j) \in taken

SlugsDiffer(collection) ==
  \A j, k \in Stored(collection) : j # k => collection[j].slug # collection[k].slug

C23_SlugBySuffix ==
  [][/\ (lastOp'.op = "createBlog" /\ lastOp'.code = 201)
          => \E t \in Titles :
                /\ blogs'[Len(blogs')].title = trim(t)
                /\ FirstFree(slugsOf(blogs), generateSlug(t), blogs'[Len(blogs')].slug)
     /\ (lastOp'.op = "createNews" /\ lastOp'.code = 201)
          => \E t \in Titles :
                /\ news'[Len(news')].title = trim(t)
                /\ FirstFree(slugsOf(news), generateSlug(t), news'[Len(news')].slug)
     /\ (lastOp'.op = "createProject" /\ lastOp'.code = 201)
          => \E t \in Titles, sl \in Slugs :
                /\ projects'[Len(projects')].title = trim(t)
                /\ FirstFree(slugsOf(projects), IF sl # <<>> THEN sl ELSE generateSlug(t),
                             projects'[Len(projects')].slug)
     /\ SlugsDiffer(blogs') /\ SlugsDiffer(news') /\ SlugsDiffer(projects')]_vars

C23_Witness ==
  /\ lastOp.op = "createBlog"
  /\ Len(blogs) = 3
  /\ blogs[1].title = <<"A">> /\ blogs[2].title = <<"A">> /\ blogs[3].title = <<"A">>
  /\ blogs[1].slug = <<"a">>
  /\ blogs[2].slug = <<"a", "-", "1">>
  /\ blogs[3].slug = <<"a", "-", "2">>

\* C22: a request that makes a project Residential always ends in a stored
\* project without plans: a create with tag Residential is answered 201 and
\* stores plans = [] whatever plan uploads and plan URLs it carries, and an
\* update that leaves the project Residential stores plans = [] whatever
\* plans the project held.
C22_ResidentialNoPlans ==
  [][/\ \A c \in {"", "c1"}, up \in {<<>>, <<"p1">>}, pu \in {<<>>, <<"p2">>} :
          (/\ lastOp'.op = "createProject"
           /\ createProject(<<"A">>, <<>>, "Residential", c, "", <<"i1">>, up, pu))
          => /\ lastOp'.code = 201
             /\ projects'[Len(projects')].tag = "Residential"
             /\ projects'[Len(projects')].plans = <<>>
     /\ \A id \in Stored(projects) :
          (/\ lastOp'.op = "updateProject" /\ lastOp'.id = id /\ lastOp'.code = 200
           /\ projects'[id].tag = "Residential")
          => projects'[id].plans = <<>>]_vars

\* C25: an update or a delete of a project answered 200 has asked the media
\* store to delete every remote asset the project referenced before the
\* request and no longer references after it.
StillReferenced(project) == IF project.exists THEN mediaOf(project) ELSE {}

C25_OrphansDeleted ==
  [][\A id \in Stored(projects) :
       (/\ lastOp'.op \in {"updateProject", "deleteProject"}
        /\ lastOp'.id = id
        /\ lastOp'.code = 200)
       => (mediaOf(projects[id]) \ StillReferenced(projects'[id])) \subseteq cloudinaryDeletes']_vars

\* C24 as stated: a testimonial whose trimmed, lower-cased email equals the
\* email of a stored testimonial is answered 409, nothing is inserted and
\* the stored testimonials stay as they are.
EmailTaken(e) ==
  \E k \in DOMAIN testimonials : testimonials[k].email = toLowerCase(trim(e))

C24_DuplicateIs409 ==
  [][\A e \in TestimonialEmails, ph \in PhoneNumbers :
       (/\ lastOp'.op = "createTestimonial"
        /\ EmailTaken(e)
        /\ createTestimonial(e, ph))
       => /\ lastOp'.code = 409
          /\ testimonials' = testimonials]_vars

\* C24 amended: such a request inserts nothing and leaves the stored
\* testimonials as they are; it is answered 409 when the email as sent has
\* the format of an address (it then differs from the stored one by case
\* only), and 400 by the validation when it has not (an email with outer
\* spaces never reaches the duplicate check).
C24_DuplicateRejected ==
  [][\A e \in TestimonialEmails, ph \in PhoneNumbers :
       (/\ lastOp'.op = "createTestimonial"
        /\ EmailTaken(e)
        /\ createTestimonial(e, ph))
       => /\ lastOp'.code = IF emailRegexTest(e) THEN 409 ELSE 400
          /\ lastOp'.code = 409 => lastOp'.arg = "email"
          /\ testimonials' = testimonials]_vars

C24_Witness ==
  /\ lastOp.op = "createTestimonial"
  /\ lastOp.code = 409
  /\ lastOp.arg = "email"
  /\ \E k \in DOMAIN testimonials : testimonials[k].email = <<"a", "@", "a", ".", "a">>
  /\ Len(testimonials) = 1

\* C30: creates of one collection that run concurrently, their findOne and
\* insertOne calls interleaved, store entities with different slugs.
C30_ConcurrentSlugsDiffer == SlugsDiffer(projects) /\ SlugsDiffer(blogs)

\* C29: among concurrent connectToDatabase callers at most one is in the
\* connect section (client.connect plus the confirming ping) at any time,
\* and isConnecting is true exactly while a caller is in that section.
C29_ConnectGuard ==
  /\ Cardinality({c \in CallerIds : InConnectSection(c)}) <= 1
  /\ isConnecting <=> \E c \in CallerIds : InConnectSection(c)
====
